---- MODULE Spec2Model ----
(***************************************************************************)
(* Quantum-Review backend: webhook ingestion (signature verification,      *)
(* delivery de-duplication, event routing to the job queue) and the GitHub *)
(* App installation-token cache, and the workers on the job queue.         *)
(*                                                                         *)
(* Time is in seconds.  Strings that the code slices or compares byte by   *)
(* byte (the signature header, the hex digest) are sequences of code       *)
(* points; a value above 127 is a non-ASCII character.                     *)
(***************************************************************************)
EXTENDS Integers, Sequences, FiniteSets, TLC

VARIABLES
    now,        \* wall clock, seconds
    ticks,      \* number of clock advances so far (bounded)
    dedupe,     \* Redis keys webhook:delivery:<id> : delivery id -> expiry instant (0 = absent)
    req,        \* the webhook requests: position in github_webhook and its locals
    queue,      \* RQ queue "default": sequence of enqueued jobs
    published,  \* messages published on broadcast:events
    vin,        \* arguments of a direct verify_webhook_signature call
    vout,       \* its outcome
    tokenKey,   \* Redis keys gh:install:<id>:token : installation -> value and expiry instant
    expiryKey,  \* Redis keys gh:install:<id>:expires_at : installation -> value and expiry instant
    issued,     \* the tokens the GitHub token endpoint has issued, in order
    call,       \* the get_installation_token calls: position and locals
    cacheDown,  \* the token cache's Redis raises on every command
    queueStalled, \* the Redis of REDIS_URL (dedupe keys and queue) accepts connections but does not answer
    logging,    \* the logging setup of the process that runs github_webhook
    repos       \* the rows of the repos table

webhookVars == <<dedupe, req, queue, published>>
verifyVars == <<vin, vout>>
tokenVars == <<tokenKey, expiryKey, issued, call, cacheDown>>
deployVars == <<logging, repos>>
vars == <<now, ticks, webhookVars, verifyVars, tokenVars, queueStalled, deployVars>>

----------------------------------------------------------------------------
(* Bounds *)

MaxRequests == 3      \* webhook requests per behaviour
MaxTicks == 2         \* clock advances per behaviour
MaxCalls == 2         \* get_installation_token calls per behaviour

(* Program constants *)

WEBHOOK_DELIVERY_CACHE_TTL_SECONDS == 3600
REFRESH_MARGIN_SECONDS == 300         \* timedelta(minutes=5)
GITHUB_APP_JWT_EXPIRATION_MINUTES == 10

Requests == 1..MaxRequests
Calls == 1..MaxCalls

\* Clock advances the environment may make: one second, or one second short
\* of the dedupe TTL (so that TTL - 1, TTL and TTL + 1 are all reached).
TickSteps == {1, WEBHOOK_DELIVERY_CACHE_TTL_SECONDS - 1}

----------------------------------------------------------------------------
(* Inputs: request bodies, secrets, headers *)

\* The configured GITHUB_WEBHOOK_SECRET and a secret one bit away from it.
Secret == "s3cr3t"
OtherSecret == "s3cr3u"

\* Request bodies, named after what they hold.
Bodies == {"b_created", "b_deleted", "b_added", "b_removed", "b_opened",
           "b_edited", "b_synchronize", "b_closed", "b_completed",
           "b_labeled", "b_emptyaction", "b_noaction", "b_array",
           "b_badjson", "b_badutf8", "b_empty", "b_sync_pr", "b_added_repo"}

\*   bytes of each body:
\*             "b_created"     : "{\"action\":\"created\"}"
\*             "b_deleted"     : "{\"action\":\"deleted\"}"
\*             "b_added"       : "{\"action\":\"added\"}"
\*             "b_removed"     : "{\"action\":\"removed\"}"
\*             "b_opened"      : "{\"action\":\"opened\"}"
\*             "b_edited"      : "{\"action\":\"edited\"}"
\*             "b_synchronize" : "{\"action\":\"synchronize\"}"
\*             "b_closed"      : "{\"action\":\"closed\"}"
\*             "b_completed"   : "{\"action\":\"completed\"}"
\*             "b_labeled"     : "{\"action\":\"labeled\"}"
\*             "b_emptyaction" : "{\"action\":\"\"}"
\*             "b_noaction"    : "{}"
\*             "b_array"       : "[]"
\*             "b_badjson"     : "{\"action\":"
\*             "b_badutf8"     : "\\xff"
\*             "b_empty"       : ""
\*             "b_sync_pr"     : "{\"action\":\"synchronize\",\"number\":7,
\*                                \"pull_request\":{\"number\":7,\"head\":{\"sha\":\"abc\"}}}"
\*             "b_added_repo"  : "{\"action\":\"added\",\"installation\":{\"id\":101},
\*                                \"repositories_added\":[{\"full_name\":\"o/b\"}]}"

\* json.loads(body.decode("utf-8")): what decoding the body gives.
\*   "object"            a JSON object (dict)
\*   "array"             valid JSON that is not an object
\*   "JSONDecodeError"   valid UTF-8, not JSON
\*   "UnicodeDecodeError" not UTF-8
json_loads(b) ==
    CASE b = "b_badutf8" -> "UnicodeDecodeError"
      [] b \in {"b_badjson", "b_empty"} -> "JSONDecodeError"
      [] b = "b_array" -> "array"
      [] OTHER -> "object"

\* payload.get("action") of a decoded object; "None" when the key is absent.
payload_action(b) ==
    CASE b = "b_created"     -> "created"
      [] b = "b_deleted"     -> "deleted"
      [] b = "b_added"       -> "added"
      [] b = "b_added_repo"  -> "added"
      [] b = "b_removed"     -> "removed"
      [] b = "b_opened"      -> "opened"
      [] b = "b_edited"      -> "edited"
      [] b = "b_synchronize" -> "synchronize"
      [] b = "b_sync_pr"     -> "synchronize"
      [] b = "b_closed"      -> "closed"
      [] b = "b_completed"   -> "completed"
      [] b = "b_labeled"     -> "labeled"
      [] b = "b_emptyaction" -> ""
      [] OTHER -> "None"

\* The dict json.loads returns for a body that holds a JSON object, as a
\* record (the empty dict is the function of empty domain).
EmptyDict == [k \in {} |-> 0]

json_object(b) ==
    CASE b = "b_noaction" -> EmptyDict
      [] b = "b_sync_pr" ->
           [action |-> "synchronize", number |-> 7,
            pull_request |-> [number |-> 7, head |-> [sha |-> "abc"]]]
      [] b = "b_added_repo" ->
           [action |-> "added", installation |-> [id |-> 101],
            repositories_added |-> <<[full_name |-> "o/b"]>>]
      [] OTHER -> [action |-> payload_action(b)]

\* hmac.new(key, msg, hashlib.sha256).hexdigest() on the bodies and secrets
\* above, as code points of the 64 hex characters.
HmacSha256Hex(key, msg) ==
    CASE key = "s3cr3t" /\ msg = "b_created" ->  \* 5b052f4381f5bf768dc87c3fbced7e96a781d58f2284a440a24c692225f13111
        <<53,98,48,53,50,102,52,51,56,49,102,53,98,102,55,54,56,100,99,56,55,99,51,102,98,99,101,100,55,101,57,54,97,55,56,49,100,53,56,102,50,50,56,52,97,52,52,48,97,50,52,99,54,57,50,50,50,53,102,49,51,49,49,49>>
      [] key = "s3cr3t" /\ msg = "b_deleted" ->  \* 9948ed2522046d5b13caad7ba6977c1899a0a2ff5794c8aae17df1fd9daeebda
        <<57,57,52,56,101,100,50,53,50,50,48,52,54,100,53,98,49,51,99,97,97,100,55,98,97,54,57,55,55,99,49,56,57,57,97,48,97,50,102,102,53,55,57,52,99,56,97,97,101,49,55,100,102,49,102,100,57,100,97,101,101,98,100,97>>
      [] key = "s3cr3t" /\ msg = "b_added" ->  \* 91dc1738adaaa66621463dd5775b0d3d0e36241780457865160fb819bccac247
        <<57,49,100,99,49,55,51,56,97,100,97,97,97,54,54,54,50,49,52,54,51,100,100,53,55,55,53,98,48,100,51,100,48,101,51,54,50,52,49,55,56,48,52,53,55,56,54,53,49,54,48,102,98,56,49,57,98,99,99,97,99,50,52,55>>
      [] key = "s3cr3t" /\ msg = "b_removed" ->  \* 749a8e5e54968db3ac4c3f6448233d035254613397fd73c26565c1773c2506f1
        <<55,52,57,97,56,101,53,101,53,52,57,54,56,100,98,51,97,99,52,99,51,102,54,52,52,56,50,51,51,100,48,51,53,50,53,52,54,49,51,51,57,55,102,100,55,51,99,50,54,53,54,53,99,49,55,55,51,99,50,53,48,54,102,49>>
      [] key = "s3cr3t" /\ msg = "b_opened" ->  \* 893b8b176c39b217756497563a1b9ba1507d371642b1edf4ee9f876b8fd74ecc
        <<56,57,51,98,56,98,49,55,54,99,51,57,98,50,49,55,55,53,54,52,57,55,53,54,51,97,49,98,57,98,97,49,53,48,55,100,51,55,49,54,52,50,98,49,101,100,102,52,101,101,57,102,56,55,54,98,56,102,100,55,52,101,99,99>>
      [] key = "s3cr3t" /\ msg = "b_edited" ->  \* e3c3cbf6a2df8203b8a68e1b2caae39cd900af1548ee5eeddfa45375d0890933
        <<101,51,99,51,99,98,102,54,97,50,100,102,56,50,48,51,98,56,97,54,56,101,49,98,50,99,97,97,101,51,57,99,100,57,48,48,97,102,49,53,52,56,101,101,53,101,101,100,100,102,97,52,53,51,55,53,100,48,56,57,48,57,51,51>>
      [] key = "s3cr3t" /\ msg = "b_synchronize" ->  \* 6c6b6012760ddf0fc3682a31703efdd191803aed430b92e8f1dab0e222254d01
        <<54,99,54,98,54,48,49,50,55,54,48,100,100,102,48,102,99,51,54,56,50,97,51,49,55,48,51,101,102,100,100,49,57,49,56,48,51,97,101,100,52,51,48,98,57,50,101,56,102,49,100,97,98,48,101,50,50,50,50,53,52,100,48,49>>
      [] key = "s3cr3t" /\ msg = "b_closed" ->  \* 8d54791e0c9ebafd268136075384c7aaddbe71cc03c5959099f01ba42f3ac289
        <<56,100,53,52,55,57,49,101,48,99,57,101,98,97,102,100,50,54,56,49,51,54,48,55,53,51,56,52,99,55,97,97,100,100,98,101,55,49,99,99,48,51,99,53,57,53,57,48,57,57,102,48,49,98,97,52,50,102,51,97,99,50,56,57>>
      [] key = "s3cr3t" /\ msg = "b_completed" ->  \* 99cd7fde489e0a4d84be2248b84c75700659f597f0192f54326a0ecc1b6c9323
        <<57,57,99,100,55,102,100,101,52,56,57,101,48,97,52,100,56,52,98,101,50,50,52,56,98,56,52,99,55,53,55,48,48,54,53,57,102,53,57,55,102,48,49,57,50,102,53,52,51,50,54,97,48,101,99,99,49,98,54,99,57,51,50,51>>
      [] key = "s3cr3t" /\ msg = "b_labeled" ->  \* a42cdf4895365104f61192d7e2fd1379787d2d36940813cdb40edfb255e3d945
        <<97,52,50,99,100,102,52,56,57,53,51,54,53,49,48,52,102,54,49,49,57,50,100,55,101,50,102,100,49,51,55,57,55,56,55,100,50,100,51,54,57,52,48,56,49,51,99,100,98,52,48,101,100,102,98,50,53,53,101,51,100,57,52,53>>
      [] key = "s3cr3t" /\ msg = "b_emptyaction" ->  \* 68d598a597ec53021b6d4f4d6a562ef7b88b2841887cb33908ea0d622f9ec798
        <<54,56,100,53,57,56,97,53,57,55,101,99,53,51,48,50,49,98,54,100,52,102,52,100,54,97,53,54,50,101,102,55,98,56,56,98,50,56,52,49,56,56,55,99,98,51,51,57,48,56,101,97,48,100,54,50,50,102,57,101,99,55,57,56>>
      [] key = "s3cr3t" /\ msg = "b_noaction" ->  \* 608b0c406f3dda19702d71a048483b8c331283106d80a208e3cf43dbde505286
        <<54,48,56,98,48,99,52,48,54,102,51,100,100,97,49,57,55,48,50,100,55,49,97,48,52,56,52,56,51,98,56,99,51,51,49,50,56,51,49,48,54,100,56,48,97,50,48,56,101,51,99,102,52,51,100,98,100,101,53,48,53,50,56,54>>
      [] key = "s3cr3t" /\ msg = "b_array" ->  \* 8bc8e4c8306d78a58772d88924a0df91fae0bf496c48b087e5069f2cb16941b6
        <<56,98,99,56,101,52,99,56,51,48,54,100,55,56,97,53,56,55,55,50,100,56,56,57,50,52,97,48,100,102,57,49,102,97,101,48,98,102,52,57,54,99,52,56,98,48,56,55,101,53,48,54,57,102,50,99,98,49,54,57,52,49,98,54>>
      [] key = "s3cr3t" /\ msg = "b_badjson" ->  \* a8fcb8a1352127e3fdd5293a2d539c5b9465e0b8a66076390956097b75fc1d10
        <<97,56,102,99,98,56,97,49,51,53,50,49,50,55,101,51,102,100,100,53,50,57,51,97,50,100,53,51,57,99,53,98,57,52,54,53,101,48,98,56,97,54,54,48,55,54,51,57,48,57,53,54,48,57,55,98,55,53,102,99,49,100,49,48>>
      [] key = "s3cr3t" /\ msg = "b_badutf8" ->  \* 35d7481d6083ed9e63c6489941b698e6f3d9f5eb6aa2335a2198e190a65f034a
        <<51,53,100,55,52,56,49,100,54,48,56,51,101,100,57,101,54,51,99,54,52,56,57,57,52,49,98,54,57,56,101,54,102,51,100,57,102,53,101,98,54,97,97,50,51,51,53,97,50,49,57,56,101,49,57,48,97,54,53,102,48,51,52,97>>
      [] key = "s3cr3t" /\ msg = "b_empty" ->  \* 3c81cc9496e1c25250f6ccb85f697c1bb623e3480d6538ad8cb6a6648142777d
        <<51,99,56,49,99,99,57,52,57,54,101,49,99,50,53,50,53,48,102,54,99,99,98,56,53,102,54,57,55,99,49,98,98,54,50,51,101,51,52,56,48,100,54,53,51,56,97,100,56,99,98,54,97,54,54,52,56,49,52,50,55,55,55,100>>
      [] key = "s3cr3t" /\ msg = "b_sync_pr" ->  \* 9742b93150cfb1450b0abac25207660a5baf4213c16dd7362d309750249e7329
        <<57,55,52,50,98,57,51,49,53,48,99,102,98,49,52,53,48,98,48,97,98,97,99,50,53,50,48,55,54,54,48,97,53,98,97,102,52,50,49,51,99,49,54,100,100,55,51,54,50,100,51,48,57,55,53,48,50,52,57,101,55,51,50,57>>
      [] key = "s3cr3t" /\ msg = "b_added_repo" ->  \* aab2c1bd99dc33795670c7796b2aa82b3e8d022d182d223c2b36bb5083c883eb
        <<97,97,98,50,99,49,98,100,57,57,100,99,51,51,55,57,53,54,55,48,99,55,55,57,54,98,50,97,97,56,50,98,51,101,56,100,48,50,50,100,49,56,50,100,50,50,51,99,50,98,51,54,98,98,53,48,56,51,99,56,56,51,101,98>>
      [] key = "s3cr3u" /\ msg = "b_created" ->  \* 9e41017f3d62e8b11b8dde956ef5eee4a74e32fc5a6078dda1d42deb86dbb602
        <<57,101,52,49,48,49,55,102,51,100,54,50,101,56,98,49,49,98,56,100,100,101,57,53,54,101,102,53,101,101,101,52,97,55,52,101,51,50,102,99,53,97,54,48,55,56,100,100,97,49,100,52,50,100,101,98,56,54,100,98,98,54,48,50>>
      [] key = "s3cr3u" /\ msg = "b_deleted" ->  \* e21f6d1d43a81debdda77333035276af64d815624079e84ad7dc43a5e0326c5c
        <<101,50,49,102,54,100,49,100,52,51,97,56,49,100,101,98,100,100,97,55,55,51,51,51,48,51,53,50,55,54,97,102,54,52,100,56,49,53,54,50,52,48,55,57,101,56,52,97,100,55,100,99,52,51,97,53,101,48,51,50,54,99,53,99>>
      [] key = "s3cr3u" /\ msg = "b_added" ->  \* 4a919aa4e731c425be10998ccc85fe9ec123075ebecd8e22a30fd087867f6bb3
        <<52,97,57,49,57,97,97,52,101,55,51,49,99,52,50,53,98,101,49,48,57,57,56,99,99,99,56,53,102,101,57,101,99,49,50,51,48,55,53,101,98,101,99,100,56,101,50,50,97,51,48,102,100,48,56,55,56,54,55,102,54,98,98,51>>
      [] key = "s3cr3u" /\ msg = "b_removed" ->  \* 0ddf42659bdc151d789995d390c6bcd3a9765506e1b4d90b00bcd82eaaa2833a
        <<48,100,100,102,52,50,54,53,57,98,100,99,49,53,49,100,55,56,57,57,57,53,100,51,57,48,99,54,98,99,100,51,97,57,55,54,53,53,48,54,101,49,98,52,100,57,48,98,48,48,98,99,100,56,50,101,97,97,97,50,56,51,51,97>>
      [] key = "s3cr3u" /\ msg = "b_opened" ->  \* a46f7949cd1fe11e3dacf51b547816d9a4cf251bd2887903b4acd049e71163eb
        <<97,52,54,102,55,57,52,57,99,100,49,102,101,49,49,101,51,100,97,99,102,53,49,98,53,52,55,56,49,54,100,57,97,52,99,102,50,53,49,98,100,50,56,56,55,57,48,51,98,52,97,99,100,48,52,57,101,55,49,49,54,51,101,98>>
      [] key = "s3cr3u" /\ msg = "b_edited" ->  \* 6a635a83bd0fea494542ae601cb105447264b55967b54f68d597d68637b6c8e9
        <<54,97,54,51,53,97,56,51,98,100,48,102,101,97,52,57,52,53,52,50,97,101,54,48,49,99,98,49,48,53,52,52,55,50,54,52,98,53,53,57,54,55,98,53,52,102,54,56,100,53,57,55,100,54,56,54,51,55,98,54,99,56,101,57>>
      [] key = "s3cr3u" /\ msg = "b_synchronize" ->  \* 1444ab487ad5e4d4254e91911018c53559bbd32cf24606ee2a642055e1c0f1ab
        <<49,52,52,52,97,98,52,56,55,97,100,53,101,52,100,52,50,53,52,101,57,49,57,49,49,48,49,56,99,53,51,53,53,57,98,98,100,51,50,99,102,50,52,54,48,54,101,101,50,97,54,52,50,48,53,53,101,49,99,48,102,49,97,98>>
      [] key = "s3cr3u" /\ msg = "b_closed" ->  \* dcbf549e4f3e6a7422f3f2003934b70eccedeb0d9d9284049ce850c0e4c3950e
        <<100,99,98,102,53,52,57,101,52,102,51,101,54,97,55,52,50,50,102,51,102,50,48,48,51,57,51,52,98,55,48,101,99,99,101,100,101,98,48,100,57,100,57,50,56,52,48,52,57,99,101,56,53,48,99,48,101,52,99,51,57,53,48,101>>
      [] key = "s3cr3u" /\ msg = "b_completed" ->  \* e2ccb937d5450635e67551606e75f414ca85d6caba38c4a741116f0425bb0ad5
        <<101,50,99,99,98,57,51,55,100,53,52,53,48,54,51,53,101,54,55,53,53,49,54,48,54,101,55,53,102,52,49,52,99,97,56,53,100,54,99,97,98,97,51,56,99,52,97,55,52,49,49,49,54,102,48,52,50,53,98,98,48,97,100,53>>
      [] key = "s3cr3u" /\ msg = "b_labeled" ->  \* 8308254bf49c3fd72a2e40b41dd6ebb7d5386f31b47e03e8a43d9ea90b57f872
        <<56,51,48,56,50,53,52,98,102,52,57,99,51,102,100,55,50,97,50,101,52,48,98,52,49,100,100,54,101,98,98,55,100,53,51,56,54,102,51,49,98,52,55,101,48,51,101,56,97,52,51,100,57,101,97,57,48,98,53,55,102,56,55,50>>
      [] key = "s3cr3u" /\ msg = "b_emptyaction" ->  \* 4136d14c8a18c53095826f8f73ccdcf484430c787e38fb6f4b952682b31b5460
        <<52,49,51,54,100,49,52,99,56,97,49,56,99,53,51,48,57,53,56,50,54,102,56,102,55,51,99,99,100,99,102,52,56,52,52,51,48,99,55,56,55,101,51,56,102,98,54,102,52,98,57,53,50,54,56,50,98,51,49,98,53,52,54,48>>
      [] key = "s3cr3u" /\ msg = "b_noaction" ->  \* 41ede57be1241851e959b37a1c29126d1c1bcc0e3e3b534846092374b9ea3b44
        <<52,49,101,100,101,53,55,98,101,49,50,52,49,56,53,49,101,57,53,57,98,51,55,97,49,99,50,57,49,50,54,100,49,99,49,98,99,99,48,101,51,101,51,98,53,51,52,56,52,54,48,57,50,51,55,52,98,57,101,97,51,98,52,52>>
      [] key = "s3cr3u" /\ msg = "b_array" ->  \* f9031b0ce9f0c033d39b71825d786302d07e1f3f08de28a0959b0fd622450977
        <<102,57,48,51,49,98,48,99,101,57,102,48,99,48,51,51,100,51,57,98,55,49,56,50,53,100,55,56,54,51,48,50,100,48,55,101,49,102,51,102,48,56,100,101,50,56,97,48,57,53,57,98,48,102,100,54,50,50,52,53,48,57,55,55>>
      [] key = "s3cr3u" /\ msg = "b_badjson" ->  \* 568edf893f775b06b719217a3f9d2eeb262a1eed23c3925722dfc15477845cbc
        <<53,54,56,101,100,102,56,57,51,102,55,55,53,98,48,54,98,55,49,57,50,49,55,97,51,102,57,100,50,101,101,98,50,54,50,97,49,101,101,100,50,51,99,51,57,50,53,55,50,50,100,102,99,49,53,52,55,55,56,52,53,99,98,99>>
      [] key = "s3cr3u" /\ msg = "b_badutf8" ->  \* 3ee2caec86db84440e7c87087606412fa3adc7614c4532cadb63a0dd73df4567
        <<51,101,101,50,99,97,101,99,56,54,100,98,56,52,52,52,48,101,55,99,56,55,48,56,55,54,48,54,52,49,50,102,97,51,97,100,99,55,54,49,52,99,52,53,51,50,99,97,100,98,54,51,97,48,100,100,55,51,100,102,52,53,54,55>>
      [] key = "s3cr3u" /\ msg = "b_empty" ->  \* 2f2a07497c7079c97177a29b846107dab20bffe3693f63379dde92fb18c8129d
        <<50,102,50,97,48,55,52,57,55,99,55,48,55,57,99,57,55,49,55,55,97,50,57,98,56,52,54,49,48,55,100,97,98,50,48,98,102,102,101,51,54,57,51,102,54,51,51,55,57,100,100,101,57,50,102,98,49,56,99,56,49,50,57,100>>
      [] key = "s3cr3u" /\ msg = "b_sync_pr" ->  \* e64d580e584c68ff8ba293df55d90fccf53a38f63b9651c6955553df5cc88481
        <<101,54,52,100,53,56,48,101,53,56,52,99,54,56,102,102,56,98,97,50,57,51,100,102,53,53,100,57,48,102,99,99,102,53,51,97,51,56,102,54,51,98,57,54,53,49,99,54,57,53,53,53,53,51,100,102,53,99,99,56,56,52,56,49>>
      [] key = "s3cr3u" /\ msg = "b_added_repo" ->  \* 6ac4ae89c6b8369bd0c93681279866b08bbf41d9a0dffbb2a6d6035ea921c046
        <<54,97,99,52,97,101,56,57,99,54,98,56,51,54,57,98,100,48,99,57,51,54,56,49,50,55,57,56,54,54,98,48,56,98,98,102,52,49,100,57,97,48,100,102,102,98,98,50,97,54,100,54,48,51,53,101,97,57,50,49,99,48,52,54>>

----------------------------------------------------------------------------
(* verify_webhook_signature *)

Sha256Prefix == <<115, 104, 97, 50, 53, 54, 61>>      \* "sha256="
Sha1Prefix == <<115, 104, 97, 49, 61>>                \* "sha1="

IsAscii(s) == \A i \in 1..Len(s) : s[i] < 128

\* str.startswith
startswith(s, p) == Len(s) >= Len(p) /\ SubSeq(s, 1, Len(p)) = p

\* hmac.compare_digest on two str: TypeError when either holds a non-ASCII
\* character, otherwise equality.
compare_digest(a, b) ==
    IF ~IsAscii(a) \/ ~IsAscii(b) THEN "TypeError"
    ELSE IF a = b THEN "True" ELSE "False"

verify_mut_any_secret(payload_body, signature_header) ==
    IF signature_header = <<>> THEN "False"
    ELSE IF ~startswith(signature_header, Sha256Prefix) THEN "False"
    ELSE LET signature == SubSeq(signature_header, 8, Len(signature_header))
         IN  IF \E k \in {Secret, OtherSecret} :
                    compare_digest(signature, HmacSha256Hex(k, payload_body)) = "True"
             THEN "True" ELSE "False"

\* Outcome of verify_webhook_signature(payload_body, signature_header):
\* "True", "False", or "TypeError" when the call raises.
verify_webhook_signature(payload_body, signature_header) ==
    IF signature_header = <<>> THEN "False"
    ELSE IF ~startswith(signature_header, Sha256Prefix) THEN "False"
    ELSE LET signature == SubSeq(signature_header, 8, Len(signature_header))
             expected_signature == HmacSha256Hex(Secret, payload_body)
         IN  compare_digest(signature, expected_signature)

\* Signature headers a client can send for a body, by kind.
SigKinds == {"missing", "empty", "valid", "noprefix", "sha1", "prefixonly",
             "deadbeef", "otherbody", "othersecret", "upper", "nonhex",
             "nonascii"}

ToUpper(s) == [i \in 1..Len(s) |-> IF s[i] >= 97 /\ s[i] <= 122 THEN s[i] - 32 ELSE s[i]]

OtherBody(b) == IF b = "b_opened" THEN "b_edited" ELSE "b_opened"

\* The header value FastAPI hands to the endpoint (x_hub_signature_256 or "").
SignatureHeader(kind, b) ==
    CASE kind = "missing"     -> <<>>
      [] kind = "empty"       -> <<>>
      [] kind = "valid"       -> Sha256Prefix \o HmacSha256Hex(Secret, b)
      [] kind = "noprefix"    -> HmacSha256Hex(Secret, b)
      [] kind = "sha1"        -> Sha1Prefix \o HmacSha256Hex(Secret, b)
      [] kind = "prefixonly"  -> Sha256Prefix
      [] kind = "deadbeef"    -> Sha256Prefix \o <<100, 101, 97, 100, 98, 101, 101, 102>>
      [] kind = "otherbody"   -> Sha256Prefix \o HmacSha256Hex(Secret, OtherBody(b))
      [] kind = "othersecret" -> Sha256Prefix \o HmacSha256Hex(OtherSecret, b)
      [] kind = "upper"       -> Sha256Prefix \o ToUpper(HmacSha256Hex(Secret, b))
      [] kind = "nonhex"      -> Sha256Prefix \o <<122, 122, 122, 122>>
      [] kind = "nonascii"    -> Sha256Prefix \o <<233>>

----------------------------------------------------------------------------
(* github_webhook: one request *)

\* X-GitHub-Event values; "None" is a missing header.
Events == {"installation", "installation_repositories", "issues",
           "pull_request", "workflow_run", "check_suite", "check_run",
           "push", "", "None"}

\* X-GitHub-Delivery values; "None" is a missing header.
Deliveries == {"None", "", "abc-123", "def-456"}

\* event_type = x_github_event or "unknown"
event_type(e) == IF e \in {"None", ""} THEN "unknown" ELSE e

\* Truthiness of the X-GitHub-Delivery header.
HasDelivery(d) == d \notin {"None", ""}

\* `if not verify_webhook_signature(...)`: the request goes on only when the
\* call returned True (a raised TypeError leaves the handler).
SignatureAcceptedMut(v) == v # "TypeError"

SignatureAccepted(v) == v = "True"

\* redis EXISTS on a key with an expiry instant: present until it expires.
KeyExists(expiry, t) == t < expiry

\* redis SETEX at instant t with the delivery TTL: the key's expiry instant.
DeliveryExpiryMut(t) == t + WEBHOOK_DELIVERY_CACHE_TTL_SECONDS - 1

DeliveryExpiry(t) == t + WEBHOOK_DELIVERY_CACHE_TTL_SECONDS

\* `from app.workers.tasks import f` (lines 157, 178, 187), and the
\* worker's resolution of a job enqueued as "app.workers.tasks.f": the import
\* runs workers/tasks.py, whose line 6 imports services/checklist_service.py,
\* whose line 7 is `from app.models.user import UserRepoRole`; models/user.py
\* defines no such name (it is in models/repo.py) and the import raises
\* ImportError, whatever f is.
import_job(f) == "ImportError"

\* The if/elif chain of github_webhook on a decoded payload: the job function
\* handed to the enqueue (by name for three branches, imported for the
\* others), "none", "AttributeError" when payload.get is called on a payload
\* that is not a dict, or "ImportError" when the import of the job function
\* raises.
route_job(et, b) ==
    IF et \in {"installation", "installation_repositories", "issues",
               "pull_request", "workflow_run"} /\ json_loads(b) # "object"
    THEN "AttributeError"
    ELSE LET action == payload_action(b) IN
         CASE et = "installation" /\ action \in {"created", "deleted"} -> "handle_installation"
           [] et = "installation_repositories" /\ action \in {"added", "removed"} -> "handle_installation_repositories"
           [] et = "issues" /\ action \in {"opened", "edited"} -> import_job("generate_checklist")
           [] et = "pull_request" /\ action \in {"opened", "synchronize"} -> import_job("generate_test_manifest")
           [] et = "pull_request" /\ action = "closed" -> "handle_pr_closed"
           [] et = "workflow_run" /\ action = "completed" -> import_job("process_workflow_run")
           [] OTHER -> "none"

\* Lines 163-173: the issues branch publishes an "issue_updated" event after
\* its enqueue, that is, when the import of line 157 has not raised.
publishes_event(et, b) ==
    /\ et = "issues" /\ json_loads(b) = "object"
    /\ payload_action(b) \in {"opened", "edited"}
    /\ import_job("generate_checklist") # "ImportError"

\* Queue.enqueue(f, payload): the job is pushed onto the queue with status
\* "queued" and the call returns; a worker runs it later.
enqueue_mut_sync(q, f, payload, r) ==
    Append(q, [func |-> f, payload |-> payload, req |-> r, status |-> "finished"])

enqueue(q, f, payload, r) ==
    Append(q, [func |-> f, payload |-> payload, req |-> r, status |-> "queued"])

\* The logging setup of the process in which github_webhook runs.
\*   "none"     the handler is called without the application's middleware:
\*              no record factory has been installed
\*   "WARNING"  the request goes through the application, whose middleware
\*              (main.py:61-84) installs a record factory that sets
\*              request_id on every log record; the lifespan has not run and
\*              the root logger is at its default level, WARNING
\*   "INFO"     the served application: the lifespan (main.py:20) has set
\*              the root level to INFO (or DEBUG), and the middleware has
\*              installed the record factory
LoggingSetups == {"none", "WARNING", "INFO"}

\* logger.<level>(msg, extra={"request_id": ...}) in github_webhook (lines
\* 107, 112-115, 122, 127-134): when the record factory is installed and the
\* level is enabled, Logger.makeRecord finds request_id already set on the
\* record and raises KeyError("Attempt to overwrite 'request_id' in
\* LogRecord"); the `hasattr` test of main.py:76 runs before `extra` is
\* applied and prevents nothing.
LogRaises(level) ==
    CASE logging = "INFO" -> TRUE
      [] logging = "WARNING" -> level \in {"WARNING", "ERROR"}
      [] OTHER -> FALSE

\* The exception leaves the handler before the response is made: answered
\* 500 by the application's exception handler (main.py:88-103).
LogKeyError(q) ==
    [q EXCEPT !.pc = "done", !.resp = 500, !.exc = "KeyError"]

\* exc names the exception that left the handler ("none" when it returned a
\* Response); an exception other than HTTPException is answered 500 by the
\* application's exception handler.
IdleRequest ==
    [pc |-> "idle", body |-> "b_empty", sig |-> "missing", delivery |-> "None",
     event |-> "None", resp |-> 0, verified |-> "none", dup |-> "none",
     checkedAt |-> -1, recordedAt |-> -1, decoded |-> FALSE, exc |-> "none"]

\* Requests are taken in index order (they are interchangeable).
Receive(r, inputs) ==
    /\ req[r].pc = "idle"
    /\ IF r = 1 THEN TRUE ELSE req[r - 1].pc # "idle"
    /\ \E i \in inputs :
         req' = [req EXCEPT ![r] = [IdleRequest EXCEPT
                    !.pc = "verify", !.body = i.body, !.sig = i.sig,
                    !.delivery = i.delivery, !.event = i.event]]
    /\ UNCHANGED <<queueStalled, deployVars, now, ticks, dedupe, queue, published, verifyVars, tokenVars>>

\* Lines 105-108: the signature check on the raw body. On a signature that
\* does not verify, the logger.warning of line 107 comes before the 401.
VerifySignature(r) ==
    /\ req[r].pc = "verify"
    /\ LET v == verify_webhook_signature(req[r].body,
                                         SignatureHeader(req[r].sig, req[r].body))
       IN  req' = [req EXCEPT ![r] =
                CASE v = "TypeError" ->
                       [@ EXCEPT !.verified = v, !.pc = "done", !.resp = 500,
                                 !.exc = "TypeError"]
                  [] ~SignatureAccepted(v) ->
                       IF LogRaises("WARNING")
                       THEN LogKeyError([@ EXCEPT !.verified = v])
                       ELSE [@ EXCEPT !.verified = v, !.pc = "done", !.resp = 401,
                                      !.exc = "HTTPException"]
                  [] OTHER ->
                       [@ EXCEPT !.verified = v,
                                 !.pc = IF HasDelivery(req[r].delivery) THEN "exists" ELSE "parse"]]
    /\ UNCHANGED <<queueStalled, deployVars, now, ticks, dedupe, queue, published, verifyVars, tokenVars>>

\* A Redis command of the handler that raises (connection refused, timeout):
\* nothing in is_duplicate_delivery or github_webhook catches it, the
\* request is answered 500. The dedupe client (lines 22-26) and the queue
\* connection (line 140) are made from the same settings.REDIS_URL, without
\* timeout: a server that accepts connections and does not answer
\* (queueStalled) leaves each command of the handler unanswered.
StoreRaises(r) ==
    [req[r] EXCEPT !.pc = "done", !.resp = 500, !.exc = "ConnectionError"]

\* is_duplicate_delivery, first round trip: EXISTS (lines 78-80), and the
\* duplicate branch of lines 111-116: the logger.info of lines 112-115, then
\* the 200 response.
DedupeExists_mut_touch(r) ==
    /\ req[r].pc = "exists"
    /\ ~queueStalled
    /\ \E up \in BOOLEAN :
         /\ req' = [req EXCEPT ![r] =
                      IF ~up THEN StoreRaises(r)
                      ELSE IF KeyExists(dedupe[@.delivery], now)
                      THEN IF LogRaises("INFO")
                           THEN LogKeyError([@ EXCEPT !.dup = "True", !.checkedAt = now])
                           ELSE [@ EXCEPT !.dup = "True", !.checkedAt = now,
                                          !.pc = "done", !.resp = 200]
                      ELSE [@ EXCEPT !.checkedAt = now, !.pc = "setex"]]
         /\ dedupe' = IF up /\ KeyExists(dedupe[req[r].delivery], now)
                      THEN [dedupe EXCEPT ![req[r].delivery] = DeliveryExpiry(now)]
                      ELSE dedupe
    /\ UNCHANGED <<queueStalled, deployVars, now, ticks, queue, published, verifyVars, tokenVars>>

DedupeExists(r) ==
    /\ req[r].pc = "exists"
    /\ ~queueStalled
    /\ \E up \in BOOLEAN :
         req' = [req EXCEPT ![r] =
                   IF ~up THEN StoreRaises(r)
                   ELSE IF KeyExists(dedupe[@.delivery], now)
                   THEN IF LogRaises("INFO")
                        THEN LogKeyError([@ EXCEPT !.dup = "True", !.checkedAt = now])
                        ELSE [@ EXCEPT !.dup = "True", !.checkedAt = now,
                                       !.pc = "done", !.resp = 200]
                   ELSE [@ EXCEPT !.checkedAt = now, !.pc = "setex"]]
    /\ UNCHANGED <<queueStalled, deployVars, now, ticks, dedupe, queue, published, verifyVars, tokenVars>>

\* is_duplicate_delivery, second round trip: SETEX (lines 83-89).
DedupeSetex(r) ==
    /\ req[r].pc = "setex"
    /\ ~queueStalled
    /\ \E up \in BOOLEAN :
         IF up
         THEN /\ dedupe' = [dedupe EXCEPT ![req[r].delivery] = DeliveryExpiry(now)]
              /\ req' = [req EXCEPT ![r] = [@ EXCEPT !.dup = "False", !.recordedAt = now,
                                                     !.pc = "parse"]]
         ELSE /\ UNCHANGED dedupe
              /\ req' = [req EXCEPT ![r] = StoreRaises(r)]
    /\ UNCHANGED <<queueStalled, deployVars, now, ticks, queue, published, verifyVars, tokenVars>>

\* Lines 118-123: decode the body (decoded records that json.loads was
\* called on it). On a JSONDecodeError the logger.error of line 122 comes
\* before the 400. A body that is not UTF-8 raises UnicodeDecodeError, which
\* the except clause does not catch.
ParsePayload(r) ==
    /\ req[r].pc = "parse"
    /\ LET p == json_loads(req[r].body)
       IN  req' = [req EXCEPT ![r] =
                CASE p = "JSONDecodeError" ->
                       IF LogRaises("ERROR")
                       THEN LogKeyError([@ EXCEPT !.decoded = TRUE])
                       ELSE [@ EXCEPT !.decoded = TRUE, !.pc = "done", !.resp = 400,
                                      !.exc = "HTTPException"]
                  [] p = "UnicodeDecodeError" ->
                       [@ EXCEPT !.decoded = TRUE, !.pc = "done", !.resp = 500,
                                 !.exc = "UnicodeDecodeError"]
                  [] OTHER -> [@ EXCEPT !.decoded = TRUE, !.pc = "route"]]
    /\ UNCHANGED <<queueStalled, deployVars, now, ticks, dedupe, queue, published, verifyVars, tokenVars>>

\* Lines 125-195: the logger.info of lines 127-134, which comes before any
\* routing, then the routing and the enqueue. An import of the job function
\* that raises leaves the handler before the enqueue, answered 500.
\* Queue.enqueue is a blocking call on a connection without timeout (line
\* 140): it returns once the queue's Redis answers. Redis can refuse the
\* enqueue (up = FALSE): the exception leaves the handler, answered 500. The
\* publish of lines 163-173 is never reached (publishes_event).
RouteEvent(r) ==
    /\ req[r].pc = "route"
    /\ LET et == event_type(req[r].event)
           job == route_job(et, req[r].body)
       IN  CASE LogRaises("INFO") ->
                  /\ req' = [req EXCEPT ![r] = LogKeyError(@)]
                  /\ UNCHANGED queue
             [] job \in {"AttributeError", "ImportError"} ->
                  /\ req' = [req EXCEPT ![r] = [@ EXCEPT !.pc = "done", !.resp = 500,
                                                         !.exc = job]]
                  /\ UNCHANGED queue
             [] job = "none" ->
                  /\ req' = [req EXCEPT ![r] = [@ EXCEPT !.pc = "done", !.resp = 200]]
                  /\ UNCHANGED queue
             [] OTHER ->
                  \E up \in BOOLEAN :
                    /\ ~queueStalled
                    /\ IF up
                       THEN /\ queue' = enqueue(queue, job, json_object(req[r].body), r)
                            /\ req' = [req EXCEPT ![r] = [@ EXCEPT !.pc = "done", !.resp = 200]]
                       ELSE /\ req' = [req EXCEPT ![r] = StoreRaises(r)]
                            /\ UNCHANGED queue
    /\ UNCHANGED <<queueStalled, deployVars, now, ticks, dedupe, published, verifyVars, tokenVars>>

\* The clock advances.
Tick(steps) ==
    /\ ticks < MaxTicks
    /\ \E d \in steps : now' = now + d
    /\ ticks' = ticks + 1
    /\ UNCHANGED <<queueStalled, deployVars, webhookVars, verifyVars, tokenVars>>

\* A direct call of verify_webhook_signature on its two arguments.
VerifyCall ==
    /\ vout = "pending"
    /\ vout' = verify_webhook_signature(vin.body, vin.header)
    /\ UNCHANGED <<queueStalled, deployVars, now, ticks, webhookVars, vin, tokenVars>>

----------------------------------------------------------------------------
(* get_installation_token *)

\* Installation ids.
Installs == {101, 202}

\* Lifetime, in seconds, of the tokens the GitHub endpoint issues.
Lifetimes == {3600}

\* The "expires_at" string of the endpoint's answer: "Z" is GitHub's form
\* ("2016-07-11T22:14:10Z"), "naive" a timestamp with no zone
\* ("2016-07-11T22:14:10").
Formats == {"Z", "naive"}

\* Clock advances while tokens are in use: one second, or up to 300 seconds
\* before the expiry of a token issued at 0.
TokenTickSteps == {1, 3300}

\* redis GET on a key with an expiry instant: the value, or 0 (None) once the
\* key has expired or when it was never set.
redis_get(key, t) == IF t < key.until THEN key.val ELSE 0

\* Line 84: expires_at > datetime.utcnow() + timedelta(minutes=5).
cache_hit_valid(expires_at, t) == expires_at > t + REFRESH_MARGIN_SECONDS

\* Line 107: datetime.fromisoformat(data["expires_at"].replace("Z", "+00:00"))
\* is timezone-aware exactly when the string carries a zone.
expires_at_aware(fmt) == fmt = "Z"

\* Line 112: (expires_at - datetime.utcnow()) raises TypeError when
\* expires_at is timezone-aware, utcnow() being naive.
ttl_raises(fmt) == expires_at_aware(fmt)

\* settings.GITHUB_APP_ID, as configured for the app.
GITHUB_APP_ID == "123456"

\* generate_app_jwt at instant t: the claims that are signed (RS256) with
\* the app's private key.
generate_app_jwt_mut_hour(t) ==
    [iat |-> t - 60, exp |-> t + 3600, iss |-> GITHUB_APP_ID]

generate_app_jwt(t) ==
    [iat |-> t - 60,
     exp |-> t + (GITHUB_APP_JWT_EXPIRATION_MINUTES * 60),
     iss |-> GITHUB_APP_ID]

\* A call's locals, and what it returned: result is the token (0 is None),
\* fromCache whether it was the cached one, posted whether the endpoint was
\* called, inMargin whether the token returned was, at the instant of the
\* return, expired or less than the margin from its expiry, exc the
\* exception the call raised to its caller ("none" when it returned),
\* app_jwt the assertion signed for the exchange (iss "" before that).
IdleCall ==
    [pc |-> "idle", inst |-> 0, cached_token |-> 0, token |-> 0,
     app_jwt |-> [iat |-> 0, exp |-> 0, iss |-> ""],
     expires_at |-> 0, fmt |-> "naive", ttl |-> 0, result |-> 0,
     fromCache |-> FALSE, posted |-> FALSE, inMargin |-> FALSE, freshBefore |-> 0,
     exc |-> "none"]

\* A call that has returned: its locals are gone.
Returned(c, token, cached, did_post) ==
    [IdleCall EXCEPT !.pc = "done", !.inst = call[c].inst, !.result = token,
                     !.fromCache = cached, !.posted = did_post,
                     !.freshBefore = call[c].freshBefore,
                     !.inMargin = IF token = 0 THEN FALSE
                                  ELSE issued[token].expires_at
                                         < now + REFRESH_MARGIN_SECONDS]

\* A call that has raised e to its caller.
Raised(c, e) ==
    [IdleCall EXCEPT !.pc = "done", !.inst = call[c].inst, !.exc = e,
                     !.freshBefore = call[c].freshBefore]

NoKey == [val |-> 0, until |-> 0]

\* The latest token issued for installation i that is still more than the
\* margin away from its expiry at instant t (0 when there is none).
FreshIssued(i, t) ==
    LET fresh == {k \in 1..Len(issued) :
                    /\ issued[k].inst = i
                    /\ issued[k].expires_at - t > REFRESH_MARGIN_SECONDS}
    IN  IF fresh = {} THEN 0 ELSE CHOOSE k \in fresh : \A j \in fresh : j <= k

\* A call starts (calls are taken in index order; they are interchangeable).
TokenCall(c) ==
    /\ call[c].pc = "idle"
    /\ IF c = 1 THEN TRUE ELSE call[c - 1].pc # "idle"
    /\ \E i \in Installs :
         call' = [call EXCEPT ![c] = [IdleCall EXCEPT !.pc = "get_token", !.inst = i]]
    /\ UNCHANGED <<cacheDown, queueStalled, deployVars, now, ticks, webhookVars, verifyVars, tokenKey, expiryKey, issued>>

\* Line 91, generate_app_jwt(), runs in the step that ends the cache check,
\* before the exchange is awaited: the assertion is signed at the instant of
\* the miss. Nothing catches what it raises: AttributeError when
\* GITHUB_PRIVATE_KEY is not configured (config.py line 75, None.encode),
\* an exception of jwt.encode when the key is not a usable RSA key.
SigningOutcomes == {"signed", "AttributeError", "PyJWTError"}

\* The call after a cache miss at this instant, signing outcome s.
Miss(c, s) ==
    IF s = "signed"
    THEN [call[c] EXCEPT !.freshBefore = FreshIssued(call[c].inst, now),
                         !.app_jwt = generate_app_jwt(now),
                         !.pc = "post"]
    ELSE [Raised(c, s) EXCEPT !.freshBefore = FreshIssued(call[c].inst, now)]

\* Line 78: cached_token = await redis_client.get(cache_key). A command
\* that raises is caught at lines 87-88 and the call goes on to sign the
\* assertion.
CacheGetToken_mut_shared(c) ==
    /\ call[c].pc = "get_token"
    /\ \E s \in SigningOutcomes :
         call' = [call EXCEPT ![c] =
                    IF cacheDown
                    THEN Miss(c, s)
                    ELSE [@ EXCEPT !.cached_token = redis_get(tokenKey[101], now),
                                   !.pc = "get_expiry"]]
    /\ UNCHANGED <<cacheDown, queueStalled, deployVars, now, ticks, webhookVars, verifyVars, tokenKey, expiryKey, issued>>

CacheGetToken(c) ==
    /\ call[c].pc = "get_token"
    /\ \E s \in SigningOutcomes :
         call' = [call EXCEPT ![c] =
                    IF cacheDown
                    THEN Miss(c, s)
                    ELSE [@ EXCEPT !.cached_token = redis_get(tokenKey[call[c].inst], now),
                                   !.pc = "get_expiry"]]
    /\ UNCHANGED <<cacheDown, queueStalled, deployVars, now, ticks, webhookVars, verifyVars, tokenKey, expiryKey, issued>>

\* Lines 79-91: read the expiry key, and return the cached token when both
\* were found and the expiry read is beyond the margin; otherwise sign the
\* assertion. freshBefore notes the token, if any, that the endpoint had
\* issued for this installation and that is beyond the margin at this
\* instant.
CacheGetExpiry(c) ==
    /\ call[c].pc = "get_expiry"
    /\ LET expires_at == redis_get(expiryKey[call[c].inst], now)
       IN  \E s \in SigningOutcomes :
             call' = [call EXCEPT ![c] =
                IF ~cacheDown /\ call[c].cached_token # 0 /\ expires_at # 0
                   /\ cache_hit_valid(expires_at, now)
                THEN [Returned(c, call[c].cached_token, TRUE, FALSE)
                        EXCEPT !.freshBefore = FreshIssued(call[c].inst, now)]
                ELSE Miss(c, s)]
    /\ UNCHANGED <<cacheDown, queueStalled, deployVars, now, ticks, webhookVars, verifyVars, tokenKey, expiryKey, issued>>

\* Lines 93-104 and 122-124: the signed assertion is exchanged with the
\* token endpoint. The exchange either issues a token (tokens are numbered
\* in order of issue; its life runs from the instant of the answer) or fails
\* with an httpx.HTTPError (timeout, connection error, 4xx/5xx status), on
\* which the call returns None (0).
PostAccessTokens(c) ==
    /\ call[c].pc = "post"
    /\ \/ /\ UNCHANGED issued
          /\ call' = [call EXCEPT ![c] = Returned(c, 0, FALSE, TRUE)]
       \/ \E life \in Lifetimes, f \in Formats :
            /\ issued' = Append(issued, [inst |-> call[c].inst,
                                         expires_at |-> now + life, fmt |-> f])
            /\ call' = [call EXCEPT ![c] =
                          [@ EXCEPT !.posted = TRUE, !.token = Len(issued) + 1,
                                    !.expires_at = now + life, !.fmt = f,
                                    !.pc = "response"]]
    /\ UNCHANGED <<cacheDown, queueStalled, deployVars, now, ticks, webhookVars, verifyVars, tokenKey, expiryKey>>

\* Lines 106-120: the token and its expiry are taken from the answer and the
\* TTL is computed. A TypeError there, or a TTL that is not positive, skips
\* the cache writes and the token is returned.
HandleResponse(c) ==
    /\ call[c].pc = "response"
    /\ call' = [call EXCEPT ![c] =
                  IF ttl_raises(call[c].fmt) \/ call[c].expires_at - now <= 0
                  THEN Returned(c, call[c].token, FALSE, TRUE)
                  ELSE [@ EXCEPT !.ttl = call[c].expires_at - now,
                                 !.pc = "setex_token"]]
    /\ UNCHANGED <<cacheDown, queueStalled, deployVars, now, ticks, webhookVars, verifyVars, tokenKey, expiryKey, issued>>

\* Line 114: await redis_client.setex(cache_key, ttl, token). A command
\* that raises is caught at lines 116-117 and the token is returned.
CacheSetexToken(c) ==
    /\ call[c].pc = "setex_token"
    /\ IF cacheDown
       THEN /\ UNCHANGED tokenKey
            /\ call' = [call EXCEPT ![c] = Returned(c, call[c].token, FALSE, TRUE)]
       ELSE /\ tokenKey' = [tokenKey EXCEPT ![call[c].inst] =
                              [val |-> call[c].token, until |-> now + call[c].ttl]]
            /\ call' = [call EXCEPT ![c] = [@ EXCEPT !.pc = "setex_expiry"]]
    /\ UNCHANGED <<cacheDown, queueStalled, deployVars, now, ticks, webhookVars, verifyVars, expiryKey, issued>>

\* Lines 115-120: await redis_client.setex(cache_expiry_key, ttl, ...), then
\* return the token.
CacheSetexExpiry(c) ==
    /\ call[c].pc = "setex_expiry"
    /\ expiryKey' = IF cacheDown THEN expiryKey
                    ELSE [expiryKey EXCEPT ![call[c].inst] =
                            [val |-> call[c].expires_at, until |-> now + call[c].ttl]]
    /\ call' = [call EXCEPT ![c] = Returned(c, call[c].token, FALSE, TRUE)]
    /\ UNCHANGED <<cacheDown, queueStalled, deployVars, now, ticks, webhookVars, verifyVars, tokenKey, issued>>

TokenStep(c) ==
    \/ CacheGetToken(c)
    \/ CacheGetExpiry(c)
    \/ PostAccessTokens(c)
    \/ HandleResponse(c)
    \/ CacheSetexToken(c)
    \/ CacheSetexExpiry(c)

----------------------------------------------------------------------------
(* The workers on the queue *)

\* A worker takes the oldest queued job.
WorkerStart ==
    \E i \in 1..Len(queue) :
        /\ queue[i].status = "queued"
        /\ \A k \in 1..(i - 1) : queue[k].status # "queued"
        /\ queue' = [queue EXCEPT ![i].status = "started"]
        /\ UNCHANGED <<queueStalled, deployVars, now, ticks, dedupe, req, published,
                       verifyVars, tokenVars>>

\* The worker resolves the job's function from its name,
\* app.workers.tasks.<f>: importing the module raises (import_job), the job
\* is failed, and no line of the task has run: the repos table is as it was.
WorkerEnd ==
    \E i \in 1..Len(queue) :
        /\ queue[i].status = "started"
        /\ import_job(queue[i].func) = "ImportError"
        /\ queue' = [queue EXCEPT ![i].status = "failed"]
        /\ UNCHANGED <<queueStalled, deployVars, now, ticks, dedupe, req, published,
                       verifyVars, tokenVars>>

\* The Redis of REDIS_URL stops answering, or answers again.
QueueStoreStalls ==
    /\ ~queueStalled
    /\ queueStalled' = TRUE
    /\ UNCHANGED <<deployVars, now, ticks, webhookVars, verifyVars, tokenVars>>

QueueStoreRecovers ==
    /\ queueStalled
    /\ queueStalled' = FALSE
    /\ UNCHANGED <<deployVars, now, ticks, webhookVars, verifyVars, tokenVars>>

----------------------------------------------------------------------------
(* Specifications *)

\* Inputs of the concurrent and sequential specifications: an
\* installation/created delivery correctly signed, with and without a
\* delivery id, an issues/opened delivery, one with a body that is not JSON,
\* and two with a bad signature.
NarrowInputs ==
    [body : {"b_created"}, sig : {"valid"}, delivery : {"None", "abc-123"},
     event : {"installation"}]
    \cup [body : {"b_opened", "b_badjson"}, sig : {"valid"}, delivery : {"abc-123"},
          event : {"issues"}]
    \cup [body : {"b_created"}, sig : {"deadbeef", "nonascii"},
          delivery : {"abc-123"}, event : {"installation"}]

\* Inputs of the routing specification: every event with every body,
\* correctly signed.
WideInputs ==
    [body : Bodies, sig : {"valid"}, delivery : {"None", "abc-123"}, event : Events]

AllHeaders ==
    {SignatureHeader(k, b) : k \in SigKinds, b \in Bodies}

NoCall == [body |-> "b_empty", header |-> <<>>]

\* The process that runs github_webhook, under each logging setup; the
\* repos table is empty (tasks.py:130-135 is the one place of the
\* repository that adds a row to it).
Deployed(setups) ==
    /\ logging \in setups
    /\ repos = {}

WebhookIdle ==
    /\ queueStalled = FALSE
    /\ now = 0
    /\ ticks = 0
    /\ dedupe = [d \in Deliveries |-> 0]
    /\ req = [r \in Requests |-> IdleRequest]
    /\ queue = <<>>
    /\ published = <<>>

\* The webhook endpoint under every logging setup.
WebhookInit ==
    /\ WebhookIdle
    /\ Deployed(LoggingSetups)

\* The served application, for the calls that do not go through
\* github_webhook.
ServedInit ==
    /\ WebhookIdle
    /\ Deployed({"INFO"})

NoCallInFlight == \A c \in Calls : call[c].pc \in {"idle", "done"}

\* No token has been issued and the cache is empty.
TokenEmpty ==
    /\ call = [c \in Calls |-> IdleCall]
    /\ cacheDown = FALSE
    /\ tokenKey = [i \in Installs |-> NoKey]
    /\ expiryKey = [i \in Installs |-> NoKey]
    /\ issued = <<>>

\* The state an earlier call leaves behind when it minted, at instant 0, a
\* token for installation 101 from an answer with a zoneless expires_at.
TokenCached ==
    /\ call = [c \in Calls |-> IdleCall]
    /\ cacheDown = FALSE
    /\ \E life \in Lifetimes :
         /\ tokenKey = [i \in Installs |->
                          IF i = 101 THEN [val |-> 1, until |-> life] ELSE NoKey]
         /\ expiryKey = [i \in Installs |->
                           IF i = 101 THEN [val |-> life, until |-> life] ELSE NoKey]
         /\ issued = <<[inst |-> 101, expires_at |-> life, fmt |-> "naive"]>>

Init ==
    /\ WebhookInit
    /\ TokenEmpty
    /\ vin = NoCall
    /\ vout = "pending"

Handle(r) ==
    \/ VerifySignature(r)
    \/ DedupeExists(r)
    \/ DedupeSetex(r)
    \/ ParsePayload(r)
    \/ RouteEvent(r)

\* Requests handled concurrently (one event loop, or several processes),
\* all within one dedupe TTL window.
Next ==
    \/ \E r \in Requests : Receive(r, NarrowInputs)
    \/ \E r \in Requests : Handle(r)

Spec == Init /\ [][Next]_vars

NoneInFlight == \A r \in Requests : req[r].pc \in {"idle", "done"}

\* Requests handled one after another, while the clock advances.
SeqNext ==
    \/ \E r \in Requests : NoneInFlight /\ Receive(r, NarrowInputs)
    \/ \E r \in Requests : Handle(r)
    \/ Tick(TickSteps)

SeqSpec == Init /\ [][SeqNext]_vars

\* A single request, over every event and body.
RouteNext ==
    \/ Receive(1, WideInputs)
    \/ Handle(1)

RouteSpec == Init /\ [][RouteNext]_vars

\* Inputs of the dispatch specification: a request that enqueues
\* (installation/created), one whose branch imports its job function
\* (issues/opened), two that are routed to no job, and an
\* installation_repositories/added delivery that names the repository
\* added, each with and without a delivery id.
DispatchInputs ==
    [body : {"b_created", "b_opened"}, sig : {"valid"}, delivery : {"None", "abc-123"},
     event : {"installation", "issues"}]
    \cup [body : {"b_added_repo"}, sig : {"valid"}, delivery : {"None", "abc-123"},
          event : {"installation_repositories"}]

\* Requests handled one after another while the workers run the jobs
\* enqueued so far.
DispatchNext ==
    \/ \E r \in Requests : NoneInFlight /\ Receive(r, DispatchInputs)
    \/ \E r \in Requests : Handle(r)
    \/ WorkerStart
    \/ WorkerEnd

DispatchSpec == Init /\ [][DispatchNext]_vars

\* Inputs of the superseding specification: pull_request deliveries, opened,
\* synchronize and closed, under two delivery ids.
SupersedeInputs ==
    [body : {"b_opened", "b_synchronize", "b_closed"}, sig : {"valid"},
     delivery : {"abc-123", "def-456"}, event : {"pull_request"}]

\* Deliveries about one pull request handled one after another
\* while the workers run the jobs enqueued so far.
SupersedeNext ==
    \/ \E r \in Requests : NoneInFlight /\ Receive(r, SupersedeInputs)
    \/ \E r \in Requests : Handle(r)
    \/ WorkerStart
    \/ WorkerEnd

SupersedeSpec == Init /\ [][SupersedeNext]_vars

\* The same with a Redis that can stop answering. The event loop runs every
\* handler that can take a step, and a handler waiting for the answer to a
\* command (EXISTS, SETEX, the enqueue) goes on when Redis answers; nothing
\* is assumed of the workers and of Redis.
LiveNext ==
    \/ DispatchNext
    \/ QueueStoreStalls
    \/ QueueStoreRecovers

LiveSpec ==
    /\ Init
    /\ [][LiveNext]_vars
    /\ \A r \in Requests : SF_vars(Handle(r))

\* verify_webhook_signature called on every body and header.
VerifyInit ==
    /\ ServedInit
    /\ TokenEmpty
    /\ vin \in [body : Bodies, header : AllHeaders]
    /\ vout = "pending"

VerifySpec == VerifyInit /\ [][VerifyCall]_vars

\* get_installation_token calls running concurrently. A call is short (its
\* HTTP exchange has a 10 s timeout) against the margin and the lifetimes:
\* here the clock moves between calls only.
TokenNext ==
    \/ \E c \in Calls : TokenCall(c)
    \/ \E c \in Calls : TokenStep(c)
    \/ NoCallInFlight /\ Tick(TokenTickSteps)

TokenInit ==
    /\ ServedInit
    /\ TokenEmpty \/ TokenCached
    /\ vin = NoCall
    /\ vout = "pending"

TokenSpec == TokenInit /\ [][TokenNext]_vars

\* get_installation_token calls made one after another; the clock moves by
\* a second while a call is in flight, and by more between calls.
TokenSeqNext ==
    \/ \E c \in Calls : NoCallInFlight /\ TokenCall(c)
    \/ \E c \in Calls : TokenStep(c)
    \/ Tick({1})
    \/ NoCallInFlight /\ Tick(TokenTickSteps)

TokenSeqSpec == TokenInit /\ [][TokenSeqNext]_vars

\* The clock reaches the last second of the life of a token issued at 0.
NearExpirySteps == {life - 1 : life \in Lifetimes}

\* Concurrent get_installation_token calls while the clock moves: by a
\* second at any instant, a call in flight or not, and to the end of a
\* token's life between calls.
TokenRaceNext ==
    \/ \E c \in Calls : TokenCall(c)
    \/ \E c \in Calls : TokenStep(c)
    \/ Tick({1})
    \/ NoCallInFlight /\ Tick(NearExpirySteps)

TokenRaceSpec == TokenInit /\ [][TokenRaceNext]_vars

\* The token cache's Redis goes down (every command raises: connection
\* refused, timeout) and comes back.
CacheFails ==
    /\ ~cacheDown
    /\ cacheDown' = TRUE
    /\ UNCHANGED <<queueStalled, deployVars, now, ticks, webhookVars, verifyVars,
                   tokenKey, expiryKey, issued, call>>

CacheRecovers ==
    /\ cacheDown
    /\ cacheDown' = FALSE
    /\ UNCHANGED <<queueStalled, deployVars, now, ticks, webhookVars, verifyVars,
                   tokenKey, expiryKey, issued, call>>

\* get_installation_token calls made one after another while the cache's
\* Redis fails and recovers at any instant.
TokenFaultNext ==
    \/ \E c \in Calls : NoCallInFlight /\ TokenCall(c)
    \/ \E c \in Calls : TokenStep(c)
    \/ CacheFails
    \/ CacheRecovers
    \/ NoCallInFlight /\ Tick(TokenTickSteps)

TokenFaultSpec == TokenInit /\ [][TokenFaultNext]_vars

----------------------------------------------------------------------------
(* Properties of the webhook endpoint *)

\* The header is "sha256=" followed by the hex HMAC-SHA256 of the body under
\* the configured secret.
CorrectlySigned(r) ==
    SignatureHeader(req[r].sig, req[r].body)
        = Sha256Prefix \o HmacSha256Hex(Secret, req[r].body)

JobsOf(r) == {i \in 1..Len(queue) : queue[i].req = r}

PublishedBy(r) == {i \in 1..Len(published) : published[i].req = r}

\* C1: of two concurrent requests carrying the same delivery id, at most one
\* is told "not a duplicate" by is_duplicate_delivery.
C1_AtMostOneNotDuplicate ==
    \A r1, r2 \in Requests :
        (r1 # r2 /\ HasDelivery(req[r1].delivery)
              /\ req[r1].delivery = req[r2].delivery)
            => ~(req[r1].dup = "False" /\ req[r2].dup = "False")

\* f recorded its delivery id before r made its dedupe check, and r made the
\* check before the record's TTL had elapsed.
WithinTtlOf(r, f) ==
    /\ f < r
    /\ HasDelivery(req[r].delivery)
    /\ req[f].delivery = req[r].delivery
    /\ CorrectlySigned(f) /\ CorrectlySigned(r)
    /\ req[f].dup = "False"
    /\ req[r].checkedAt >= req[f].recordedAt
    /\ req[r].checkedAt < req[f].recordedAt + WEBHOOK_DELIVERY_CACHE_TTL_SECONDS

\* r arrived after f had been answered, f recorded the delivery id, and r
\* has been answered before the record's TTL has elapsed.
ArrivedWithinTtlOf(r, f) ==
    /\ f < r
    /\ HasDelivery(req[r].delivery)
    /\ req[f].delivery = req[r].delivery
    /\ CorrectlySigned(f) /\ CorrectlySigned(r)
    /\ req[f].dup = "False"
    /\ req[r].pc = "done"
    /\ now < req[f].recordedAt + WEBHOOK_DELIVERY_CACHE_TTL_SECONDS

\* C2: of correctly signed requests with the same delivery id arriving one
\* after another within the TTL, every one after the first is answered 200
\* before its body is decoded, and enqueues and publishes nothing.
C2_LaterDeliveriesShortCircuited ==
    \A r, f \in Requests :
        ArrivedWithinTtlOf(r, f) =>
            /\ req[r].resp = 200
            /\ ~req[r].decoded
            /\ JobsOf(r) = {}
            /\ PublishedBy(r) = {}

\* The calls of is_duplicate_delivery for r's delivery id that returned
\* before r's call was made.
EarlierCalls(r) ==
    {f \in Requests : f < r /\ req[f].delivery = req[r].delivery
                            /\ req[f].dup # "none"}

\* The latest earlier call that returned false (and so wrote the record).
LastRecorded(r) ==
    CHOOSE f \in EarlierCalls(r) :
        /\ req[f].dup = "False"
        /\ \A g \in EarlierCalls(r) : req[g].dup = "False" => g <= f

\* C3: for each delivery id the first is_duplicate_delivery call returns
\* false, every later call made before the record's TTL has elapsed returns
\* true, and the first call made after it has elapsed returns false again.
C3_FirstFalseThenTrueUntilTtl ==
    \A r \in Requests :
        req[r].dup # "none" =>
            IF EarlierCalls(r) = {}
            THEN req[r].dup = "False"
            ELSE /\ \E f \in EarlierCalls(r) : req[f].dup = "False"
                 /\ req[r].dup =
                      IF req[r].checkedAt < req[LastRecorded(r)].recordedAt
                                              + WEBHOOK_DELIVERY_CACHE_TTL_SECONDS
                      THEN "True" ELSE "False"

C3_Witness ==
    \E f, g, r \in Requests :
        /\ f < g /\ g < r
        /\ HasDelivery(req[r].delivery)
        /\ req[f].delivery = req[r].delivery /\ req[g].delivery = req[r].delivery
        /\ req[f].dup = "False" /\ req[g].dup = "True" /\ req[r].dup = "False"
        /\ req[r].checkedAt >= req[f].recordedAt + WEBHOOK_DELIVERY_CACHE_TTL_SECONDS

\* C6: a request whose signature does not verify is answered 401, and
\* writes no dedupe record, decodes nothing, enqueues and publishes nothing.
C6_BadSignatureAnswered401 ==
    \A r \in Requests :
        (req[r].pc = "done" /\ ~CorrectlySigned(r)) =>
            /\ req[r].resp = 401
            /\ req[r].dup = "none"
            /\ ~req[r].decoded
            /\ JobsOf(r) = {}
            /\ PublishedBy(r) = {}

\* C7: a request body is decoded as JSON only after
\* verify_webhook_signature has returned true for that request.
C7_DecodeOnlyAfterVerify ==
    \A r \in Requests :
        (req[r].decoded \/ req[r].pc \in {"parse", "route"})
            => (req[r].verified = "True" /\ CorrectlySigned(r))

C7_Witness ==
    \E r \in Requests : req[r].decoded /\ req[r].verified = "True"

\* C8: verify_webhook_signature accepts "sha256=" + hex HMAC-SHA256(secret,
\* body) for the body and the configured secret, and rejects a signature
\* computed over another body or with another secret.
C8_HmacRoundTrip ==
    vout # "pending" =>
        /\ (vin.header = Sha256Prefix \o HmacSha256Hex(Secret, vin.body))
              => vout = "True"
        /\ \A k \in {Secret, OtherSecret}, b \in Bodies :
              ((k # Secret \/ b # vin.body)
                 /\ vin.header = Sha256Prefix \o HmacSha256Hex(k, b))
              => vout = "False"

C8_Witness ==
    /\ vout = "True"
    /\ vin.header = Sha256Prefix \o HmacSha256Hex(Secret, vin.body)

\* C9: for every header that is not "sha256=" followed by the expected hex
\* digest (empty, no prefix, wrong digest, non-hex, non-ASCII),
\* verify_webhook_signature returns false; it neither returns true nor raises.
C9_FailsClosed ==
    (vout # "pending"
       /\ vin.header # Sha256Prefix \o HmacSha256Hex(Secret, vin.body))
        => vout = "False"

\* The dispatch table of the event router: the job of an (event, action)
\* pair, "none" when the pair has no job.
DispatchTable(e, a) ==
    CASE e = "installation" /\ a \in {"created", "deleted"} -> "handle_installation"
      [] e = "installation_repositories" /\ a \in {"added", "removed"} -> "handle_installation_repositories"
      [] e = "issues" /\ a \in {"opened", "edited"} -> "generate_checklist"
      [] e = "pull_request" /\ a \in {"opened", "synchronize"} -> "generate_test_manifest"
      [] e = "pull_request" /\ a = "closed" -> "handle_pr_closed"
      [] e = "workflow_run" /\ a = "completed" -> "process_workflow_run"
      [] OTHER -> "none"

\* C10: a verified, non-duplicate request whose body holds a JSON object
\* enqueues exactly the job the dispatch table gives for its (event,
\* action), and no request ever enqueues more than one job. (A command the
\* store refused is left aside: it is Redis that fails then.)
C10_JobsFollowDispatchTable ==
    \A r \in Requests :
        /\ Cardinality(JobsOf(r)) <= 1
        /\ (/\ req[r].pc = "done"
            /\ req[r].verified = "True"
            /\ req[r].dup # "True"
            /\ json_loads(req[r].body) = "object"
            /\ req[r].exc # "ConnectionError") =>
             LET job == DispatchTable(event_type(req[r].event),
                                      payload_action(req[r].body))
             IN  {queue[i].func : i \in JobsOf(r)}
                    = IF job = "none" THEN {} ELSE {job}

----------------------------------------------------------------------------
(* Properties of the installation-token cache *)

\* C4: get_installation_token never returns, from the cache, a token whose
\* expires_at is in the past or less than 5 minutes after the instant it is
\* returned.
C4_CachedTokenBeyondMargin ==
    \A c \in Calls :
        (call[c].pc = "done" /\ call[c].fromCache) => ~call[c].inMargin

\* C5: once a token has been minted for an installation, a later call made
\* while that token is more than 5 minutes from its expiry returns it without
\* calling the endpoint; a call made when no such token exists calls the
\* endpoint, unless the signing of the app JWT raised.
C5_RepeatedCallReusesToken ==
    \A c \in Calls :
        call[c].pc = "done" =>
            IF call[c].freshBefore # 0
            THEN call[c].result = call[c].freshBefore /\ ~call[c].posted
            ELSE call[c].posted \/ call[c].exc # "none"

----------------------------------------------------------------------------
(* Properties of routing and of the responses *)

\* The request went through signature verification and the dedupe check and
\* reached the decoding of its body.
VerifiedNonDuplicate(r) ==
    /\ req[r].pc = "done"
    /\ req[r].verified = "True"
    /\ req[r].dup # "True"

\* C11: routing never raises. A verified, non-duplicate request whose body
\* decodes as JSON is answered 200 whatever its event type and action; an
\* issues/opened request has exactly one job, a check_run, check_suite or
\* unknown event has none. (A command the store refused is left aside: it is
\* Redis that fails then, not the routing.)
C11_RoutingNeverRaises ==
    \A r \in Requests :
        (/\ VerifiedNonDuplicate(r)
         /\ json_loads(req[r].body) \in {"object", "array"}
         /\ req[r].exc # "ConnectionError")
        => /\ req[r].resp = 200
           /\ req[r].exc = "none"
           /\ (req[r].event = "issues" /\ payload_action(req[r].body) = "opened")
                 => Cardinality(JobsOf(r)) = 1
           /\ req[r].event \in {"check_run", "check_suite", "push", "", "None"}
                 => JobsOf(r) = {}

\* C12: a verified, non-duplicate pull_request/synchronize request enqueues
\* exactly one generate_test_manifest job, and the job's payload is the
\* object the body holds, field for field. (A command the store refused is
\* left aside.)
C12_SynchronizePayloadIntact ==
    \A r \in Requests :
        (/\ VerifiedNonDuplicate(r)
         /\ req[r].event = "pull_request"
         /\ req[r].body \in {"b_synchronize", "b_sync_pr"}
         /\ req[r].exc # "ConnectionError")
        => /\ Cardinality(JobsOf(r)) = 1
           /\ \A i \in JobsOf(r) :
                /\ queue[i].func = "generate_test_manifest"
                /\ queue[i].payload = json_object(req[r].body)

\* C13: a request whose signature verifies and whose body cannot be decoded
\* as JSON is answered 400 and enqueues nothing; and every request is
\* answered 200, 401 or 400 (a command the store refused left aside).
C13_UndecodableBodyAnswered400 ==
    \A r \in Requests :
        req[r].pc = "done" =>
          /\ (/\ VerifiedNonDuplicate(r)
              /\ json_loads(req[r].body) \in {"JSONDecodeError", "UnicodeDecodeError"}
              /\ req[r].exc # "ConnectionError")
             => (req[r].resp = 400 /\ JobsOf(r) = {})
          /\ req[r].exc # "ConnectionError" => req[r].resp \in {200, 401, 400}

----------------------------------------------------------------------------
(* Properties of the dispatch to the workers *)

\* C14: the enqueue is fire-and-forget. The step that enqueues the job of
\* a request leaves the job queued (not started) and sends the 200
\* response; a request whose enqueue succeeded is answered 200 whatever its
\* job does; and once the response is sent, no step of a worker changes it.
C14_FireAndForget ==
    /\ [](\A r \in Requests :
            (req[r].pc = "done" /\ JobsOf(r) # {}) => req[r].resp = 200)
    /\ [][\A r \in Requests :
            /\ \A i \in 1..Len(queue') :
                 (i > Len(queue) /\ queue'[i].req = r)
                 => /\ queue'[i].status = "queued"
                    /\ req'[r].pc = "done" /\ req'[r].resp = 200
            /\ req[r].pc = "done" => req'[r] = req[r]]_vars

C14_Witness ==
    \E r1, r2 \in Requests :
        /\ req[r1].pc = "done" /\ req[r1].resp = 200
        /\ \E i \in JobsOf(r1) : queue[i].status = "queued"
        /\ req[r2].pc = "done" /\ req[r2].resp = 200
        /\ \E i \in JobsOf(r2) : queue[i].status = "failed"

\* C15: every request whose signature verified is eventually answered,
\* whatever the queue store and the workers do.
C15_VerifiedRequestAnswered ==
    \A r \in Requests : (req[r].verified = "True") ~> (req[r].pc = "done")

\* The same when the queue store answers again and again (accepting or
\* refusing the enqueue).
AnsweredWhenStoreAnswers ==
    ([]<>(~queueStalled)) => C15_VerifiedRequestAnswered

----------------------------------------------------------------------------
(* Properties of get_installation_token's failures *)

\* C20: a get_installation_token call that obtained no token (the signing
\* or the exchange failed) raises an error to its caller: it never returns
\* an empty token.
C20_NoTokenMeansError ==
    \A c \in Calls :
        (call[c].pc = "done" /\ call[c].result = 0) => call[c].exc # "none"


----------------------------------------------------------------------------
(* Properties of the token cache, of redelivery and of the dispatch *)

\* Call c returns, at this step, a token it has just minted.
ReturnsMinted(c) ==
    /\ call[c].pc # "done"
    /\ call'[c].pc = "done"
    /\ call'[c].posted
    /\ call'[c].result # 0

\* C22: when a call returns a token it minted, both cache keys of the
\* installation hold the new token and its expiry, and they expire no later
\* than the token does and not before the refresh margin starts.
C22_MintedTokenIsCached ==
    [][\A c \in Calls :
         ReturnsMinted(c) =>
            LET i == call'[c].inst
                t == call'[c].result
            IN  /\ tokenKey'[i].val = t
                /\ expiryKey'[i].val = issued'[t].expires_at
                /\ tokenKey'[i].until <= issued'[t].expires_at
                /\ expiryKey'[i].until <= issued'[t].expires_at
                /\ tokenKey'[i].until > issued'[t].expires_at - REFRESH_MARGIN_SECONDS
                /\ expiryKey'[i].until > issued'[t].expires_at - REFRESH_MARGIN_SECONDS]_vars

\* Call c returns a token at this step, minted or cached.
ReturnsToken(c) ==
    /\ call[c].pc # "done"
    /\ call'[c].pc = "done"
    /\ call'[c].result # 0

\* C23: under every interleaving of the calls, a token a call returns was
\* issued by the endpoint for the call's installation and is not expired at
\* the instant it is returned.
C23_ReturnedTokenIssuedAndUnexpired ==
    [][\A c \in Calls :
         ReturnsToken(c) =>
            /\ call'[c].result \in 1..Len(issued')
            /\ issued'[call'[c].result].inst = call'[c].inst
            /\ issued'[call'[c].result].expires_at > now']_vars

\* The requests that recorded delivery id d (their call returned false).
Recorders(d) == {f \in Requests : req[f].delivery = d /\ req[f].dup = "False"}

\* C24: a call that finds the delivery id recorded returns true and leaves
\* every record as it is; the record of a delivery id expires one TTL after
\* the latest call that returned false for it, whatever the duplicates seen
\* since.
C24_DuplicateLeavesRecord ==
    /\ [](\A d \in Deliveries :
            Recorders(d) # {} =>
                \E f \in Recorders(d) :
                    /\ \A g \in Recorders(d) : req[g].recordedAt <= req[f].recordedAt
                    /\ dedupe[d] = req[f].recordedAt + WEBHOOK_DELIVERY_CACHE_TTL_SECONDS)
    /\ [][\A r \in Requests :
            (req[r].pc = "exists" /\ req'[r].dup = "True") => dedupe' = dedupe]_vars

\* A duplicate was found a second or more after the first sighting, and the
\* record still expires one TTL after the first sighting.
C24_Witness ==
    \E r, f \in Requests :
        /\ WithinTtlOf(r, f)
        /\ req[r].dup = "True"
        /\ req[r].checkedAt > req[f].recordedAt
        /\ now < req[f].recordedAt + WEBHOOK_DELIVERY_CACHE_TTL_SECONDS
        /\ dedupe[req[r].delivery] = req[f].recordedAt + WEBHOOK_DELIVERY_CACHE_TTL_SECONDS

\* The repos table holds full_name as installed under installation inst.
StoredAsInstalled(full_name, inst) ==
    \E x \in repos :
        /\ x.repo_full_name = full_name
        /\ x.is_installed
        /\ x.installation_id = inst

\* C25: once a worker has executed the job of an installation_repositories
\* "added" event, every repository the event added is stored as installed
\* under the installation of the event.
C25_RepositoriesSynced ==
    \A i \in 1..Len(queue) :
        (/\ queue[i].func = "handle_installation_repositories"
         /\ queue[i].payload.action = "added"
         /\ "repositories_added" \in DOMAIN queue[i].payload
         /\ queue[i].status \in {"finished", "failed"})
        => \A k \in 1..Len(queue[i].payload.repositories_added) :
              StoredAsInstalled(queue[i].payload.repositories_added[k].full_name,
                                queue[i].payload.installation.id)

\* A verified, non-duplicate request for an (event, action) of the dispatch
\* table that no store command failed.
RoutedToJob(r) ==
    /\ VerifiedNonDuplicate(r)
    /\ req[r].exc # "ConnectionError"
    /\ json_loads(req[r].body) = "object"
    /\ DispatchTable(event_type(req[r].event), payload_action(req[r].body)) # "none"

\* C26: every verified, non-duplicate request routed to a job has its own
\* job on the queue, and a job once enqueued is never removed or replaced:
\* it keeps its place, function, payload and request whatever is enqueued
\* or run afterwards.
C26_NoCancellationNoCoalescing ==
    /\ [](\A r \in Requests : RoutedToJob(r) => Cardinality(JobsOf(r)) = 1)
    /\ [][/\ Len(queue') >= Len(queue)
          /\ \A i \in 1..Len(queue) :
                /\ queue'[i].func = queue[i].func
                /\ queue'[i].payload = queue[i].payload
                /\ queue'[i].req = queue[i].req]_vars

\* Every request under r's delivery id carries r's event and body, as
\* GitHub's redeliveries of one delivery do.
SameDelivery(r) ==
    \A f \in Requests :
        (req[f].pc # "idle" /\ req[f].delivery = req[r].delivery)
            => req[f].body = req[r].body /\ req[f].event = req[r].event

\* C27: a correctly signed delivery of a routed event with a well-formed
\* body, first attempt or redelivery, that has been acknowledged with 200
\* (after which GitHub delivers it no more) has a job on the queue for its
\* delivery id, for the workers to run.
C27_AcknowledgedDeliveryHasJob ==
    \A r \in Requests :
        (/\ req[r].pc = "done"
         /\ req[r].resp = 200
         /\ CorrectlySigned(r)
         /\ HasDelivery(req[r].delivery)
         /\ SameDelivery(r)
         /\ json_loads(req[r].body) = "object"
         /\ DispatchTable(event_type(req[r].event), payload_action(req[r].body)) # "none")
        => \E i \in 1..Len(queue) : req[queue[i].req].delivery = req[r].delivery

\* A verified, non-duplicate issues request with action opened or edited.
IssueOpenedOrEdited(r) ==
    /\ req[r].verified = "True"
    /\ req[r].dup # "True"
    /\ event_type(req[r].event) = "issues"
    /\ json_loads(req[r].body) = "object"
    /\ payload_action(req[r].body) \in {"opened", "edited"}

HasChecklistJob(r) ==
    /\ Cardinality(JobsOf(r)) = 1
    /\ \A i \in JobsOf(r) : queue[i].func = "generate_checklist"

\* C29: an issues opened/edited request has its generate_checklist job on
\* the queue and is answered 200, having published at most one message, of
\* type "issue_updated"; no request of another event type or action
\* publishes. (A command the store refused is left aside.)
C29_IssueUpdatedPublishedAfterEnqueue ==
    \A r \in Requests :
        /\ Cardinality(PublishedBy(r)) <= 1
        /\ \A i \in PublishedBy(r) :
             /\ published[i].type = "issue_updated"
             /\ IssueOpenedOrEdited(r)
        /\ (IssueOpenedOrEdited(r) /\ req[r].pc = "done"
               /\ req[r].exc # "ConnectionError")
             => req[r].resp = 200 /\ HasChecklistJob(r)

\* Call c signs its app assertion in this step.
SignsAssertion(c) == call[c].app_jwt.iss = "" /\ call'[c].app_jwt.iss # ""

\* C30: the assertion a call signs for the token exchange has the app id as
\* issuer, is issued at now - 60 seconds and expires at most 600 seconds
\* after now, now being the instant of the signing; the call keeps that
\* assertion until it returns.
C30_AppJwtClaims ==
    [][\A c \in Calls :
         /\ SignsAssertion(c) =>
              /\ call'[c].app_jwt.iss = GITHUB_APP_ID
              /\ call'[c].app_jwt.iat = now - 60
              /\ call'[c].app_jwt.exp <= now + 600
              /\ call'[c].app_jwt.exp > now
         /\ (call[c].app_jwt.iss # "" /\ call'[c].pc # "done")
              => call'[c].app_jwt = call[c].app_jwt]_vars

\* A call has signed its assertion at an instant after 0 and holds the
\* endpoint's answer.
C30_Witness ==
    \E c \in Calls :
        /\ call[c].pc = "response"
        /\ now > 0
        /\ call[c].app_jwt = [iat |-> now - 60, exp |-> now + 600, iss |-> GITHUB_APP_ID]

\* Request f recorded its delivery id and then failed: its body did not
\* decode (400) or an exception left the handler (500).
FailedAfterDedupe(f) ==
    /\ req[f].pc = "done"
    /\ req[f].dup = "False"
    /\ req[f].resp \in {400, 500}

\* C31: a redelivery, within the TTL, of a delivery id whose earlier request
\* failed after the dedupe check is not told "duplicate" unless some other
\* request under that id finished routing: the failed request leaves no
\* record behind.
C31_FailedRequestLeavesNoRecord ==
    \A r \in Requests :
        (/\ req[r].pc = "done"
         /\ HasDelivery(req[r].delivery)
         /\ CorrectlySigned(r)
         /\ \E f \in Requests : WithinTtlOf(r, f)
         /\ \A f \in Requests :
               (f < r /\ req[f].delivery = req[r].delivery /\ req[f].dup = "False")
                   => FailedAfterDedupe(f))
        => req[r].dup # "True"

\* Call c returns the cached token at this step.
ReturnsCached(c) ==
    /\ call[c].pc = "get_expiry"
    /\ call'[c].pc = "done"
    /\ call'[c].fromCache

\* C32: under every interleaving of the calls, the expires_at a call read
\* from the cache and checked against the margin before returning the cached
\* token is the expiry of that token: the two keys it read hold the pair of
\* one issuance.
C32_CachedPairFromOneIssuance ==
    [][\A c \in Calls :
         ReturnsCached(c) =>
            redis_get(expiryKey[call[c].inst], now)
                = issued[call'[c].result].expires_at]_vars

\* Request r was verified and came without an X-GitHub-Delivery header (or
\* with an empty one).
VerifiedWithoutDelivery(r) ==
    /\ req[r].verified = "True"
    /\ req[r].delivery \in {"None", ""}

\* C36: a verified request without a delivery id makes no dedupe check and
\* writes no dedupe record; it is always decoded and routed, and has its own
\* job when its (event, action) is one of the dispatch table and the queue
\* store did not refuse the enqueue, whatever identical requests came
\* before it.
C36_NoDeliveryIdNoDedupe ==
    /\ dedupe["None"] = 0 /\ dedupe[""] = 0
    /\ \A r \in Requests :
          VerifiedWithoutDelivery(r) =>
             /\ req[r].dup = "none"
             /\ req[r].checkedAt = -1 /\ req[r].recordedAt = -1
             /\ req[r].pc \notin {"exists", "setex"}
             /\ req[r].pc = "done" =>
                   /\ req[r].decoded
                   /\ (/\ json_loads(req[r].body) = "object"
                       /\ DispatchTable(event_type(req[r].event),
                                        payload_action(req[r].body)) # "none"
                       /\ req[r].exc # "ConnectionError")
                        => req[r].resp = 200 /\ Cardinality(JobsOf(r)) = 1

\* The cache entry of installation i: its two keys.
CacheEntry(i) == <<tokenKey[i], expiryKey[i]>>

\* C37: a call returns only tokens issued for its own installation, each
\* installation's cache entry holds only a token issued for it, and a step
\* of a call for one installation leaves the cache entries of the others
\* as they are.
C37_CachePerInstallation ==
    /\ [](/\ \A c \in Calls :
               (call[c].pc = "done" /\ call[c].result # 0)
                   => issued[call[c].result].inst = call[c].inst
          /\ \A i \in Installs :
               tokenKey[i].val # 0 => issued[tokenKey[i].val].inst = i)
    /\ [][\A c \in Calls, i \in Installs :
            (call'[c] # call[c] /\ call[c].inst # i)
               => <<tokenKey'[i], expiryKey'[i]>> = CacheEntry(i)]_vars

\* A call for installation 202 minted and cached its token, and a call for
\* installation 101 was then served 101's token from the cache.
C37_Witness ==
    \E c1, c2 \in Calls :
        /\ call[c1].pc = "done" /\ call[c1].inst = 202
        /\ call[c1].posted /\ call[c1].result # 0
        /\ tokenKey[202].val = call[c1].result
        /\ call[c2].pc = "done" /\ call[c2].inst = 101
        /\ call[c2].fromCache /\ call[c2].result = tokenKey[101].val
        /\ tokenKey[101].val # tokenKey[202].val

\* Call c returns at this step the token it minted without having completed
\* the cache writes: a write raised, the TTL computation raised, or the TTL
\* was not positive.
ReturnsAfterFailedWrite(c) ==
    /\ call'[c].pc = "done"
    /\ \/ call[c].pc = "response"
       \/ call[c].pc \in {"setex_token", "setex_expiry"} /\ cacheDown

\* C38: a cache read that raises is taken as a miss (the call goes on to
\* sign the assertion for the exchange, and ends there only if the signing
\* raises); when a cache write raises or the TTL is not positive, the call
\* returns the token it minted, raises nothing, and the cache holds no entry
\* for that token.
C38_CacheFailuresNeverFailCall ==
    [][\A c \in Calls :
         /\ (call[c].pc \in {"get_token", "get_expiry"} /\ cacheDown
                /\ call'[c] # call[c])
               => \/ call'[c].pc = "post" /\ call'[c].app_jwt = generate_app_jwt(now)
                  \/ call'[c].pc = "done"
                        /\ call'[c].exc \in SigningOutcomes \ {"signed"}
         /\ ReturnsAfterFailedWrite(c) =>
               /\ call'[c].exc = "none"
               /\ call'[c].result = call[c].token
               /\ call'[c].result # 0
               /\ tokenKey'[call[c].inst].val # call[c].token
               /\ expiryKey'[call[c].inst] = expiryKey[call[c].inst]]_vars

====
